---- MODULE Spec2Model ----
(***************************************************************************)
(* Model of mpesonen/vector_database:                                      *)
(*   scripts/embed_arxiv.py  the ingestion script (get_year_from_arxiv_id, *)
(*                           load_papers, main)                            *)
(*   backend/api.py          the query service (/health, /search)          *)
(* Both share one persisted collection, "arxiv_papers".                    *)
(*                                                                         *)
(* Python strings are sequences of one-character strings, so that split,   *)
(* slicing, int() and strip() are computed and not assumed.  An optional   *)
(* value (None or x) is the set {} or {x}.                                 *)
(***************************************************************************)
EXTENDS Integers, Sequences, FiniteSets, TLC

VARIABLES
    store,      \* items of collection "arxiv_papers" on disk
    exists,     \* whether the collection exists on disk
    serving,    \* whether the query service has been started
    pc,         \* position of the ingestion script
    args,       \* argparse result of the current run: limit, year, clean
    file,       \* lines of DATA_FILE as the current run reads them
    pos,        \* lines of the file load_papers has consumed
    papers,     \* load_papers' `papers`, then main's
    i,          \* index of the batch loop, range(0, len(papers), BATCH_SIZE)
    batches,    \* history: the id lists handed to collection.add in this run
    cause,      \* why the run aborted: "none", "parse", "add"
    ingested,   \* history: latest metadata handed to a returning add, per id
    priorCount, \* history: collection count when the current run started
    req,        \* last request the query service received
    resp,       \* its response
    yid,        \* argument of a get_year_from_arxiv_id call
    yres        \* its result

vars == <<store, exists, serving, pc, args, file, pos, papers, i, batches, cause,
          ingested, priorCount, req, resp, yid, yres>>

runVars == <<pc, args, file, pos, papers, i, batches, cause, priorCount>>
svcVars == <<serving, req, resp>>
yearVars == <<yid, yres>>

----------------------------------------------------------------------------
(* Optional values *)

None == {}
Some(x) == {x}
The(o) == CHOOSE x \in o : TRUE

Min(a, b) == IF a <= b THEN a ELSE b

----------------------------------------------------------------------------
(* Python string operations *)

Digits == <<"0", "1", "2", "3", "4", "5", "6", "7", "8", "9">>

IsDigit(c) == \E k \in 1..Len(Digits) : Digits[k] = c

DigitVal(c) == (CHOOSE k \in 1..Len(Digits) : Digits[k] = c) - 1

Whitespace == {" ", "\t", "\n", "\r", "\f"}

\* c in s
Contains(s, c) == \E k \in 1..Len(s) : s[k] = c

\* positions of c in s
Occurrences(s, c) == {k \in 1..Len(s) : s[k] = c}

FirstAt(s, c) == CHOOSE k \in Occurrences(s, c) : \A j \in Occurrences(s, c) : k <= j

\* s.split(c)[0]
SplitHead(s, c) ==
    IF Contains(s, c) THEN SubSeq(s, 1, FirstAt(s, c) - 1) ELSE s

\* s.split(c)[1]: the piece between the first and the second c.  {} stands for
\* the IndexError of a split with one piece.
SplitSecond(s, c) ==
    IF ~Contains(s, c) THEN None
    ELSE LET rest == SubSeq(s, FirstAt(s, c) + 1, Len(s))
         IN  Some(SplitHead(rest, c))

\* s[:n]
Prefix(s, n) == SubSeq(s, 1, Min(n, Len(s)))

\* s.strip()
Strip(s) ==
    LET keep == {k \in 1..Len(s) : s[k] \notin Whitespace}
    IN  IF keep = {} THEN <<>>
        ELSE LET lo == CHOOSE k \in keep : \A j \in keep : k <= j
                 hi == CHOOSE k \in keep : \A j \in keep : j <= k
             IN  SubSeq(s, lo, hi)

\* s.replace(a, b) for one-character a and b
Replace(s, a, b) == [k \in 1..Len(s) |-> IF s[k] = a THEN b ELSE s[k]]

RECURSIVE DigitsValue(_)
\* value of a digit string, underscores skipped
DigitsValue(s) ==
    IF s = <<>> THEN 0
    ELSE LET last == s[Len(s)]
             init == SubSeq(s, 1, Len(s) - 1)
         IN  IF last = "_" THEN DigitsValue(init)
             ELSE 10 * DigitsValue(init) + DigitVal(last)

\* int(s): {v}, or {} for ValueError.  Whitespace around the literal is
\* stripped, one sign is allowed, and an underscore only between two digits.
PyInt(s) ==
    LET t    == Strip(s)
        sgn  == IF t # <<>> /\ t[1] = "-" THEN -1 ELSE 1
        body == IF t # <<>> /\ t[1] \in {"-", "+"} THEN Tail(t) ELSE t
        wellFormed ==
            /\ body # <<>>
            /\ \A k \in 1..Len(body) : IsDigit(body[k]) \/ body[k] = "_"
            /\ \A k \in 1..Len(body) :
                  body[k] = "_" =>
                     /\ k > 1 /\ k < Len(body)
                     /\ IsDigit(body[k - 1]) /\ IsDigit(body[k + 1])
    IN  IF wellFormed THEN Some(sgn * DigitsValue(body)) ELSE None

----------------------------------------------------------------------------
(* get_year_from_arxiv_id *)

\* a faulty year rule: 91 itself taken for 20xx
CenturyOffByOne(yy) == IF yy > 91 THEN 1900 + yy ELSE 2000 + yy

\* 1900 + yy if yy >= 91 else 2000 + yy
Century(yy) == IF yy >= 91 THEN 1900 + yy ELSE 2000 + yy

\* The function's result: {year}, or {} for None.  A ValueError of int() or an
\* IndexError of the split is caught and gives None.
get_year_from_arxiv_id(arxiv_id) ==
    IF Contains(arxiv_id, ".")
    THEN LET yymm == SplitHead(arxiv_id, ".")
             yy   == PyInt(Prefix(yymm, 2))
         IN  IF yy = None THEN None ELSE Some(Century(The(yy)))
    ELSE IF Contains(arxiv_id, "/")
    THEN LET piece == SplitSecond(arxiv_id, "/")
         IN  IF piece = None THEN None
             ELSE LET yymm == Prefix(The(piece), 4)
                      yy   == PyInt(Prefix(yymm, 2))
                  IN  IF yy = None THEN None ELSE Some(Century(The(yy)))
    ELSE None

----------------------------------------------------------------------------
(* Input lines and Paper records *)

BATCH_SIZE == 100

\* A line of the JSONL file: a JSON object with the keys id, title, abstract
\* (always present in the snapshot) and an optional categories key, or text
\* json.loads rejects.
Record(id, title, abstract, categories) ==
    [json |-> TRUE, id |-> id, title |-> title, abstract |-> abstract,
     categories |-> categories]

BadLine ==
    [json |-> FALSE, id |-> <<>>, title |-> <<>>, abstract |-> <<>>,
     categories |-> None]

\* .replace("\n", " ").strip()
Normalize(s) == Strip(Replace(s, "\n", " "))

\* the dict load_papers appends; record.get("categories", "")
MakePaper(record) ==
    [id         |-> record.id,
     title      |-> Normalize(record.title),
     abstract   |-> Normalize(record.abstract),
     categories |-> IF record.categories = None THEN <<>>
                    ELSE The(record.categories)]

\* a faulty year test: the comparison turned round
RejectedFlipped(paper_year, min_year) ==
    paper_year = None \/ The(paper_year) > min_year

\* paper_year is None or paper_year < min_year
Rejected(paper_year, min_year) ==
    paper_year = None \/ The(paper_year) < min_year

\* a faulty parse: the failure swallowed
JsonLoadsAccepts(line) == FALSE

\* json.loads(line) raises JSONDecodeError
JsonLoadsRaises(line) == ~line.json

\* a faulty limit test: one paper too many
LimitReachedLate(n, limit) == limit # None /\ n > The(limit)

\* limit is not None and len(papers) >= limit
LimitReached(n, limit) == limit # None /\ n >= The(limit)

\* limit = args.limit if args.limit > 0 else None
EffectiveLimit(a) == IF a.limit > 0 THEN Some(a.limit) ELSE None

----------------------------------------------------------------------------
(* The collection *)

\* a faulty batch slice: one paper short
SliceShort(s, lo, hi) == SubSeq(s, lo + 1, Min(hi, Len(s)) - 1)

\* s[lo:hi] for 0 <= lo <= hi
Slice(s, lo, hi) == SubSeq(s, lo + 1, Min(hi, Len(s)))

Ids(batch) == {batch[k].id : k \in 1..Len(batch)}

StoredIds(s) == {x.id : x \in s}

\* documents = "title abstract" (the embedding is computed from it),
\* metadatas = {title, categories}
Item(p) ==
    [id |-> p.id, title |-> p.title, categories |-> p.categories,
     document |-> p.title \o <<" ">> \o p.abstract]

\* collection.add(documents, ids, metadatas): the outcomes of the library.
\* Ids repeated inside one call are rejected (DuplicateIDError).  An id the
\* collection already holds is never overwritten: the library either skips
\* that record or rejects the call, depending on its version.
CollectionAdd(s, batch) ==
    LET fresh == {Item(batch[k]) : k \in {j \in 1..Len(batch) :
                                            batch[j].id \notin StoredIds(s)}}
    IN  IF Cardinality(Ids(batch)) # Len(batch)
        THEN {[ok |-> FALSE, store |-> s]}
        ELSE IF Ids(batch) \cap StoredIds(s) # {}
        THEN {[ok |-> TRUE, store |-> s \cup fresh], [ok |-> FALSE, store |-> s]}
        ELSE {[ok |-> TRUE, store |-> s \cup fresh]}

\* a faulty get_or_create_collection: the collection is created anew
CreateFresh(s) == {}

\* items of the collection after client.get_or_create_collection
GetOrCreate(s) == s

\* a faulty delete_collection: the items survive
DeleteKeepsItems(s) == s

\* items left by client.delete_collection
DeleteCollection(s) == {}

\* collection.count()
CollectionCount(s) == Cardinality(s)

\* metadata of the latest submission per id, after a batch was added
Submitted(g, batch) ==
    {x \in g : x.id \notin Ids(batch)}
      \cup {[id |-> batch[k].id, title |-> batch[k].title,
             categories |-> batch[k].categories] : k \in 1..Len(batch)}

----------------------------------------------------------------------------
(* Inputs *)

MaxFileLen == 2     \* lines of a small input file, main specification
MaxLimit == 1       \* largest --limit, main specification
MaxLoadLen == 3     \* lines of an input file, load specification
MaxLoadLimit == 2   \* largest --limit, load specification
MaxPapers == 201    \* lines of an input file, batch specification

IdNew == <<"2", "3", "0", "1", ".", "0", "0", "0", "0", "1">>
IdOld == <<"h", "e", "p", "-", "t", "h", "/", "9", "9", "0", "1", "0", "0", "1">>
IdBare == <<"n", "o", "d", "o", "t", "s">>

RecA1 == Record(IdNew, <<"T">>, <<"x">>, Some(<<"c", "s">>))
RecA2 == Record(IdNew, <<"U", "\n">>, <<" ", "y">>, None)
RecB == Record(IdOld, <<"T">>, <<"x">>, Some(<<"c", "s">>))
RecC == Record(IdBare, <<"V">>, <<"x">>, None)

Lines == {RecA1, RecA2, RecB, BadLine}

LoadLines == Lines \cup {RecC}

SeqsUpTo(S, n) == UNION {[1..m -> S] : m \in 0..n}

RECURSIVE Decimal(_)
\* decimal digits of k >= 0
Decimal(k) ==
    IF k < 10 THEN <<Digits[k + 1]>>
    ELSE Append(Decimal(k \div 10), Digits[(k % 10) + 1])

BigId(k) == <<"2", "4", "0", "1", ".">> \o Decimal(k)

\* n records with pairwise distinct ids
BigFile(n) == [k \in 1..n |-> Record(BigId(k), <<"T">>, <<"x">>, None)]

\* one record more than a batch holds, the last repeating the id of the first
\* with another title
BigDupFile ==
    [k \in 1..(BATCH_SIZE + 1) |->
        IF k = BATCH_SIZE + 1 THEN Record(BigId(1), <<"U">>, <<"y">>, None)
        ELSE Record(BigId(k), <<"T">>, <<"x">>, None)]

SmallFiles == SeqsUpTo(Lines, MaxFileLen)

Files == SmallFiles \cup {BigDupFile}

LoadFiles == SeqsUpTo(LoadLines, MaxLoadLen)

YearArgs == {None, Some(2000)}

LoadYearArgs == {None, Some(0), Some(2000), Some(2023)}

Args ==
    [limit : 0..MaxLimit, year : YearArgs, clean : BOOLEAN]

LoadArgs ==
    [limit : -1..MaxLoadLimit, year : LoadYearArgs, clean : {FALSE}]

NoArgs == [limit |-> 0, year |-> None, clean |-> FALSE]

\* n_results values a client sends
NResults == {0, 1, 100, 101}

NoReq == [op |-> "none", n |-> 0]
NoResp == [code |-> 0, count |-> 0, queried |-> None]

----------------------------------------------------------------------------
(* Ingestion script: main() *)

InitSystem ==
    /\ store = {}
    /\ exists = FALSE
    /\ serving = FALSE
    /\ ingested = {}
    /\ req = NoReq
    /\ resp = NoResp

InitRun ==
    /\ pc = "idle"
    /\ args = NoArgs
    /\ file = <<>>
    /\ pos = 0
    /\ papers = <<>>
    /\ i = 0
    /\ batches = <<>>
    /\ cause = "none"
    /\ priorCount = 0

InitYear ==
    /\ yid = <<>>
    /\ yres = [done |-> FALSE, year |-> None]

Init == InitSystem /\ InitRun /\ InitYear

\* the script is started on one of the files F: parse_args, PersistentClient
StartFrom(F) ==
    /\ pc = "idle"
    /\ \E a \in Args, f \in F :
          /\ args' = a
          /\ file' = f
    /\ pc' = "clean"
    /\ pos' = 0
    /\ papers' = <<>>
    /\ i' = 0
    /\ batches' = <<>>
    /\ cause' = "none"
    /\ priorCount' = CollectionCount(store)
    /\ UNCHANGED <<store, exists, ingested, svcVars, yearVars>>

StartRun == StartFrom(SmallFiles)

StartRunAny == StartFrom(Files)

\* if args.clean: delete_collection, a missing collection being reported only
CleanStep ==
    /\ pc = "clean"
    /\ IF args.clean /\ exists
       THEN /\ store' = DeleteCollection(store)
            /\ exists' = FALSE
            /\ ingested' = {}
       ELSE UNCHANGED <<store, exists, ingested>>
    /\ pc' = "load"
    /\ UNCHANGED <<args, file, pos, papers, i, batches, cause, priorCount,
                   svcVars, yearVars>>

\* papers = load_papers(DATA_FILE, limit, args.year): one pass of its for loop,
\* or its end.  The limit is tested before the line is parsed; a line
\* json.loads rejects ends the run by the uncaught JSONDecodeError.
LoadLine ==
    /\ pc = "load"
    /\ LET limit    == EffectiveLimit(args)
           min_year == args.year
           record   == file[pos + 1]
       IN  IF pos >= Len(file) \/ LimitReached(Len(papers), limit)
           THEN /\ pc' = "create"
                /\ UNCHANGED <<pos, papers, cause>>
           ELSE IF JsonLoadsRaises(record)
           THEN /\ pc' = "aborted"
                /\ cause' = "parse"
                /\ UNCHANGED <<pos, papers>>
           ELSE IF min_year # None
                   /\ Rejected(get_year_from_arxiv_id(record.id), The(min_year))
           THEN /\ pos' = pos + 1
                /\ UNCHANGED <<pc, papers, cause>>
           ELSE /\ pos' = pos + 1
                /\ papers' = Append(papers, MakePaper(record))
                /\ UNCHANGED <<pc, cause>>
    /\ UNCHANGED <<store, exists, ingested, args, file, i, batches,
                   priorCount, svcVars, yearVars>>

\* collection = client.get_or_create_collection(...)
CreateStep ==
    /\ pc = "create"
    /\ exists' = TRUE
    /\ store' = GetOrCreate(store)
    /\ i' = 0
    /\ pc' = "batch"
    /\ UNCHANGED <<ingested, args, file, pos, papers, batches, cause, priorCount,
                   svcVars, yearVars>>

\* one pass of the batch loop: collection.add of papers[i:i + BATCH_SIZE]
BatchStep ==
    /\ pc = "batch"
    /\ i < Len(papers)
    /\ LET batch == Slice(papers, i, i + BATCH_SIZE)
       IN  /\ batches' = Append(batches, [k \in 1..Len(batch) |-> batch[k].id])
           /\ \E out \in CollectionAdd(store, batch) :
                 /\ store' = out.store
                 /\ IF out.ok
                    THEN /\ i' = i + BATCH_SIZE
                         /\ ingested' = Submitted(ingested, batch)
                         /\ UNCHANGED <<pc, cause>>
                    ELSE /\ pc' = "aborted"
                         /\ cause' = "add"
                         /\ UNCHANGED <<i, ingested>>
    /\ UNCHANGED <<exists, args, file, pos, papers, priorCount, svcVars, yearVars>>

\* the loop is exhausted: the final count is printed
LoopEnd ==
    /\ pc = "batch"
    /\ i >= Len(papers)
    /\ pc' = "done"
    /\ UNCHANGED <<store, exists, ingested, args, file, pos, papers, i, batches,
                   cause, priorCount, svcVars, yearVars>>

\* the process ends, normally or by the uncaught exception
Exit ==
    /\ pc \in {"done", "aborted"}
    /\ pc' = "idle"
    /\ args' = NoArgs
    /\ file' = <<>>
    /\ pos' = 0
    /\ papers' = <<>>
    /\ i' = 0
    /\ batches' = <<>>
    /\ cause' = "none"
    /\ priorCount' = 0
    /\ UNCHANGED <<store, exists, ingested, svcVars, yearVars>>

----------------------------------------------------------------------------
(* Query service: backend/api.py *)

\* a faulty range test: 100 itself refused
NResultsInvalidStrict(n) == n < 1 \/ n >= 100

\* request.n_results < 1 or request.n_results > 100
NResultsInvalid(n) == n < 1 \/ n > 100

\* module level: the service opens the collection, creating it when missing
ServiceStart ==
    /\ ~serving
    /\ serving' = TRUE
    /\ exists' = TRUE
    /\ store' = GetOrCreate(store)
    /\ UNCHANGED <<ingested, req, resp, runVars, yearVars>>

\* GET /health.  A collection deleted under the running service makes the
\* library call fail, which the handler does not catch.
health_check ==
    /\ serving
    /\ req' = [op |-> "health", n |-> 0]
    /\ resp' = IF exists
               THEN [code |-> 200, count |-> CollectionCount(store),
                     queried |-> None]
               ELSE [code |-> 500, count |-> 0, queried |-> None]
    /\ UNCHANGED <<store, exists, serving, ingested, runVars, yearVars>>

\* POST /search with n_results = n.  `queried` is the n_results handed to
\* collection.query; the response lists what the query returned.
search_papers ==
    /\ serving
    /\ \E n \in NResults :
          /\ req' = [op |-> "search", n |-> n]
          /\ resp' = IF NResultsInvalid(n)
                     THEN [code |-> 400, count |-> 0, queried |-> None]
                     ELSE [code |-> IF exists THEN 200 ELSE 500,
                           count |-> 0, queried |-> Some(n)]
    /\ UNCHANGED <<store, exists, serving, ingested, runVars, yearVars>>

----------------------------------------------------------------------------
(* Specifications *)

\* the whole system, the ingestion script reading small files
Next ==
    \/ StartRun
    \/ CleanStep
    \/ LoadLine
    \/ CreateStep
    \/ BatchStep
    \/ LoopEnd
    \/ Exit
    \/ ServiceStart
    \/ health_check
    \/ search_papers

Spec == Init /\ [][Next]_vars

\* the ingestion script alone, run after run, files of more than one batch included
NextIngest ==
    \/ StartRunAny
    \/ CleanStep
    \/ LoadLine
    \/ CreateStep
    \/ BatchStep
    \/ LoopEnd
    \/ Exit

SpecIngest == Init /\ [][NextIngest]_vars

\* load_papers on every file and argument of the bounds
InitLoad ==
    /\ InitSystem
    /\ InitYear
    /\ pc = "load"
    /\ args \in LoadArgs
    /\ file \in LoadFiles
    /\ pos = 0
    /\ papers = <<>>
    /\ i = 0
    /\ batches = <<>>
    /\ cause = "none"
    /\ priorCount = 0

SpecLoad == InitLoad /\ [][LoadLine]_vars

\* the batch loop on every number of loaded papers up to MaxPapers
InitBatch ==
    /\ InitSystem
    /\ InitYear
    /\ pc = "create"
    /\ args = NoArgs
    /\ \E n \in 0..MaxPapers :
          /\ file = BigFile(n)
          /\ pos = n
          /\ papers = [k \in 1..n |-> MakePaper(BigFile(n)[k])]
    /\ i = 0
    /\ batches = <<>>
    /\ cause = "none"
    /\ priorCount = 0

NextBatch ==
    \/ CreateStep
    \/ BatchStep
    \/ LoopEnd

SpecBatch == InitBatch /\ [][NextBatch]_vars

----------------------------------------------------------------------------
(* get_year_from_arxiv_id on its own *)

TwoDigits == {<<Digits[a], Digits[b]>> : a, b \in 1..Len(Digits)}

Categories ==
    { <<"h", "e", "p", "-", "t", "h">>,
      <<"c", "s">>,
      <<"m", "a", "t", "h", ".", "A", "G">> }

\* YYMM.NNNNN
NewFormatIds == {yy \o <<"0", "1", ".", "0", "0", "0", "0", "1">> : yy \in TwoDigits}

\* category/YYMMNNN
OldFormatIds ==
    {c \o <<"/">> \o yy \o <<"0", "1", "0", "0", "1">> :
        c \in Categories, yy \in TwoDigits}

\* other strings an id field may hold
OddIds ==
    { <<>>, IdBare, <<"/">>, <<".">>, <<"c", "s", "/">>, <<"c", "s", "/", "9">>,
      <<"c", "s", "/", "x", "9", "0", "1">>, <<"x", "y", ".", "1">>,
      <<"+", "7", "0", "1", ".", "1">>, <<"-", "7", "0", "1", ".", "1">>,
      <<" ", "7", "0", "1", ".", "1">>, <<"7", ".", "1">>, <<"1", "_", ".", "1">>,
      <<"2", "3", "0", "1">>, <<"a", "/", "b", "/", "9", "9", "0", "1">> }

YearIds == NewFormatIds \cup OldFormatIds \cup OddIds

InitYearCall ==
    /\ InitSystem
    /\ InitRun
    /\ yid \in YearIds
    /\ yres = [done |-> FALSE, year |-> None]

\* paper_year = get_year_from_arxiv_id(yid)
YearCall ==
    /\ ~yres.done
    /\ yres' = [done |-> TRUE, year |-> get_year_from_arxiv_id(yid)]
    /\ UNCHANGED <<store, exists, ingested, yid, runVars, svcVars>>

SpecYear == InitYearCall /\ [][YearCall]_vars

----------------------------------------------------------------------------
(* Properties *)

\* the year rule as the specification words it
YearRule(yy) == IF yy >= 91 THEN 1900 + yy ELSE 2000 + yy

TwoDigitValue(yy) == 10 * DigitVal(yy[1]) + DigitVal(yy[2])

Metadata(x) == [id |-> x.id, title |-> x.title, categories |-> x.categories]

\* the record passes the year filter
Passes(line, min_year) ==
    \/ min_year = None
    \/ /\ get_year_from_arxiv_id(line.id) # None
       /\ The(get_year_from_arxiv_id(line.id)) >= The(min_year)

\* the Paper records of the lines of f that are records and pass the filter
QualifyingPapers(f, min_year) ==
    LET Keep(line) == line.json /\ Passes(line, min_year)
        kept == SelectSeq(f, Keep)
    IN  [k \in 1..Len(kept) |-> MakePaper(kept[k])]

FirstN(s, n) == SubSeq(s, 1, Min(n, Len(s)))

PastLoad == pc \in {"create", "batch", "done"}

\* C1: when a run has completed, the collection holds exactly one item per id
\* ingested since it was last dropped, each with the title and categories of
\* the most recent ingestion of its id, and the count equals the number of
\* distinct ids ingested.
C1_UpsertKeepsLatest ==
    pc = "done" =>
        /\ \A x, y \in store : x.id = y.id => x = y
        /\ {Metadata(x) : x \in store} = ingested
        /\ CollectionCount(store) = Cardinality({x.id : x \in ingested})

\* C2 as stated: a completed --clean run that loaded N papers leaves a
\* collection of exactly N items.
C2_CleanCountIsLoaded ==
    (pc = "done" /\ args.clean) => CollectionCount(store) = Len(papers)

\* C2 amended: a completed --clean run leaves exactly one item per distinct id
\* among the loaded papers and no item of an earlier run, so its count is the
\* number of distinct loaded ids (N when the N ids differ).
C2_CleanCountIsDistinctIds ==
    (pc = "done" /\ args.clean) =>
        /\ StoredIds(store) = Ids(papers)
        /\ CollectionCount(store) = Cardinality(Ids(papers))
        /\ (Cardinality(Ids(papers)) = Len(papers)
               => CollectionCount(store) = Len(papers))

C2_Witness ==
    /\ pc = "done"
    /\ args.clean
    /\ priorCount > CollectionCount(store)
    /\ CollectionCount(store) = Len(papers)
    /\ Len(papers) >= 1

\* C3: /search answers 400 exactly when n_results < 1 or n_results > 100 and
\* then does not query the collection; otherwise the collection is queried
\* with that n_results.
C3_NResultsRange ==
    req.op = "search" =>
        /\ (req.n < 1 \/ req.n > 100) <=> resp.code = 400
        /\ resp.code = 400 => resp.queried = None
        /\ (1 <= req.n /\ req.n <= 100) => resp.queried = Some(req.n)

C3_Witness ==
    /\ req = [op |-> "search", n |-> 100]
    /\ resp = [code |-> 200, count |-> 0, queried |-> Some(100)]

\* C4: for an old-format id category/YYMMNNN, dotted categories included, the
\* result is 1900+YY when YY >= 91 and 2000+YY otherwise.
C4_OldFormatYear ==
    yres.done =>
        \A c \in Categories, yy \in TwoDigits :
            yid = c \o <<"/">> \o yy \o <<"0", "1", "0", "0", "1">>
                => yres.year = Some(YearRule(TwoDigitValue(yy)))

C6_LoadFirstQualifying ==
    pc = "create" =>
        /\ args.limit >= 1 =>
              papers = FirstN(QualifyingPapers(file, args.year), args.limit)
        /\ args.limit = 0 => papers = QualifyingPapers(file, args.year)

C6_Witness ==
    /\ pc = "create"
    /\ args.limit = 1
    /\ args.year = Some(2000)
    /\ file = <<RecB, RecA1, RecA2>>
    /\ papers = <<MakePaper(RecA1)>>

\* C7: under a year filter every paper kept has a resolved year >= min_year
\* and every record read whose year is lower or unresolved is left out without
\* an error; without a filter every record read is kept.
C7_YearFilter ==
    /\ args.year # None =>
          /\ \A k \in 1..Len(papers) :
                /\ get_year_from_arxiv_id(papers[k].id) # None
                /\ The(get_year_from_arxiv_id(papers[k].id)) >= The(args.year)
          /\ papers = QualifyingPapers(SubSeq(file, 1, pos), args.year)
    /\ args.year = None =>
          papers = [k \in 1..pos |-> MakePaper(file[k])]
    /\ pc = "aborted" => ~file[pos + 1].json

C7_Witness ==
    /\ pc = "create"
    /\ args.year = Some(2000)
    /\ args.limit = 0
    /\ file = <<RecB, RecC, RecA1>>
    /\ papers = <<MakePaper(RecA1)>>

\* C8: a step that answers a request leaves the collection as it was; a step
\* that changes the stored items is a step of an ingestion run, either the
\* --clean step, which empties the collection before any batch of the run is
\* written, or a batch step, which removes nothing.
C8_StoreFrame ==
    [][ /\ (req' # req \/ resp' # resp) => (store' = store /\ exists' = exists)
        /\ store' # store =>
              /\ req' = req /\ resp' = resp
              /\ \/ /\ pc = "clean" /\ args.clean
                    /\ store' = {}
                    /\ batches = <<>>
                 \/ /\ pc = "batch"
                    /\ StoredIds(store) \subseteq StoredIds(store') ]_vars

C8_Witness ==
    /\ req.op = "health"
    /\ resp.code = 200
    /\ resp.count = 2
    /\ CollectionCount(store) = 2
    /\ pc = "idle"

\* C9: the batches handed to the collection are the consecutive slices of 100
\* of the loaded papers, in order; each holds between 1 and 100 papers and
\* every one but the last holds 100; when the run is done every paper lies in
\* exactly one batch, and no batch was submitted for zero papers.
C9_BatchPartition ==
    LET n  == Len(papers)
        nb == Len(batches)
    IN  (pc \in {"batch", "done"}) =>
           /\ \A b \in 1..nb :
                 /\ Len(batches[b]) >= 1 /\ Len(batches[b]) <= 100
                 /\ (b < nb \/ (pc = "batch" /\ i < n)) => Len(batches[b]) = 100
                 /\ \A k \in 1..Len(batches[b]) :
                       /\ (b - 1) * 100 + k <= n
                       /\ batches[b][k] = papers[(b - 1) * 100 + k].id
           /\ pc = "done" =>
                 /\ n = 0 => nb = 0
                 /\ \A k \in 1..n :
                       Cardinality({b \in 1..nb :
                           \E j \in 1..Len(batches[b]) :
                               batches[b][j] = papers[k].id}) = 1

C9_Witness ==
    /\ pc = "done"
    /\ Len(papers) = 201
    /\ Len(batches) = 3
    /\ Len(batches[3]) = 1

\* line k is malformed and load_papers reads it: no earlier line is malformed
\* and fewer than `limit` qualifying records precede it
ReadsMalformedAt(k) ==
    /\ ~file[k].json
    /\ \A j \in 1..(k - 1) : file[j].json
    /\ \/ args.limit <= 0
       \/ Len(QualifyingPapers(SubSeq(file, 1, k - 1), args.year)) < args.limit

AbortedByParse(p, c) == p = "aborted" /\ c = "parse"

\* what C10 says of a run the parse failure aborted
C10_AbortEffect ==
    /\ AbortedByParse(pc, cause) => (batches = <<>> /\ i = 0)
    /\ [][(AbortedByParse(pc', cause') \/ AbortedByParse(pc, cause))
             => store' = store]_vars

====
